---- MODULE Spec2Model ----
(***************************************************************************)
(* Tonkkabot: the retrieval pipeline of src/data.py (fetch_data and its    *)
(* TTL cache, the coverage decoder, the yearly threshold tracker kept in   *)
(* history.json, temperature()), the two plot caches of src/plots.py and   *)
(* the bot handlers of src/tonkkabot.py that call them.                    *)
(*                                                                         *)
(* Time is one integer clock `now` in seconds.  Temperatures are integers  *)
(* in tenths of a degree (21.5 C is 215).  A calendar year is YearLen      *)
(* seconds long so that a rollover happens inside the explored horizon.    *)
(***************************************************************************)
EXTENDS Integers, Sequences, FiniteSets, TLC

\* ------------------------------------------------------------------ bounds
TickLen == 30          \* seconds the clock advances in one Tick
MaxTime == 60          \* the clock stops here
YearLen == 60          \* seconds in one model year
FeedLen == 1           \* longest payload the service sends under Spec
MaxLen == 3            \* longest payload decoded under SpecCall
BaseYear == 2025       \* calendar year at clock 0

\* ------------------------------------------------------- program constants
ttl == 60              \* TTLCache(maxsize=100, ttl=60)
maxsize == 100
Threshold == 200       \* record_possible_tonkka(df, 20.0), in tenths
TemperatureHours == 6  \* temperature(): fetch_data(6)
HistoryPad == 2        \* plots.history: hourdelta=hours + 2
DefaultHistoryHours == 24

\* ------------------------------------------------------------- exceptions
Ok(v) == [ok |-> TRUE, val |-> v]
Raise(e) == [ok |-> FALSE, exc |-> e]

\* The class each modelled exception is caught as (its base class).
ExcBase(e) ==
  CASE e \in {"Timeout", "ConnectionError", "HTTPError"} -> "RequestException"
    [] e = "ParseError" -> "ParseError"
    [] e \in {"ValueError", "JSONDecodeError", "AxisError"} -> "ValueError"
    [] e = "IndexError" -> "IndexError"
    [] e = "KeyError" -> "KeyError"
    [] OTHER -> e

\* fetch_data's three except clauses.
CaughtByFetch == {"RequestException", "ParseError", "ValueError", "KeyError", "IndexError"}

\* ------------------------------------------------------------- calendar
YearOf(t) == BaseYear + (t \div YearLen)

\* ------------------------------------------------------------ temperatures
Num(v) == [nan |-> FALSE, v |-> v]
NaN == [nan |-> TRUE, v |-> 0]

\* float(text) for the texts of a value row; "-" is text float() rejects.
FloatTable ==
  [s \in {"10.0", "19.0", "20.0", "21.5", "23.0", "NaN"} |->
     CASE s = "10.0" -> Num(100)
       [] s = "19.0" -> Num(190)
       [] s = "20.0" -> Num(200)
       [] s = "21.5" -> Num(215)
       [] s = "23.0" -> Num(230)
       [] s = "NaN" -> NaN]

ParseFloat(s) == IF s \in DOMAIN FloatTable THEN Ok(FloatTable[s]) ELSE Raise("ValueError")

\* df["temp"] >= threshold: false for NaN.
GE(temp, th) == ~temp.nan /\ temp.v >= th

\* ------------------------------------------------------------ XML decoder
\* One element of the response: absent, present without text, or with text.
NoElement == [el |-> "missing", toks |-> <<>>]
NoText == [el |-> "notext", toks |-> <<>>]
Text(toks) == [el |-> "text", toks |-> toks]

\* The while loop of get_positions over el.text.split(): three pops per
\* round; pop(0) on an empty list raises IndexError.
RECURSIVE PopTriples(_)
PopTriples(pos) ==
  IF Len(pos) = 0 THEN Ok(<<>>)
  ELSE IF Len(pos) < 3 THEN Raise("IndexError")
  ELSE LET rest == PopTriples(SubSeq(pos, 4, Len(pos)))
       IN IF rest.ok THEN Ok(<<SubSeq(pos, 1, 3)>> \o rest.val) ELSE rest

\* get_positions(tree): rows of [lat, lon, timestamp].
get_positions(el) ==
  CASE el.el = "missing" -> Ok(<<>>)
    [] el.el = "notext" -> Raise("AttributeError")   \* None.split()
    [] OTHER -> PopTriples(el.toks)

\* The value rows: el.text.strip().split("\n"), each row split on " ".
ValueRows(el) ==
  CASE el.el = "missing" -> Ok(<<>>)
    [] el.el = "notext" -> Raise("AttributeError")   \* None.strip()
    [] OTHER -> Ok(el.toks)

\* np.append(positions, np.array(d), axis=1).
data_array(positions, d) ==
  IF Len(positions) = 0 /\ Len(d) = 0 THEN Raise("AxisError")
  ELSE IF Len(positions) = 0 \/ Len(d) = 0 THEN Raise("ValueError")
  ELSE IF \E i, j \in 1..Len(d) : Len(d[i]) # Len(d[j]) THEN Raise("ValueError")
  ELSE IF Len(positions) # Len(d) THEN Raise("ValueError")
  ELSE Ok([i \in 1..Len(positions) |-> positions[i] \o d[i]])

\* pd.DataFrame(data_array, columns=["lon", "lat", "time", "temp"]).
DataFrame(arr) ==
  IF \E i \in 1..Len(arr) : Len(arr[i]) # 4 THEN Raise("ValueError")
  ELSE Ok([i \in 1..Len(arr) |->
            [lon |-> arr[i][1], lat |-> arr[i][2], time |-> arr[i][3], temp |-> arr[i][4]]])

\* Faulty variant: a gap reads as zero degrees.
astype_float_zero(df) ==
  IF \E i \in 1..Len(df) : ~ParseFloat(df[i].temp).ok THEN Raise("ValueError")
  ELSE Ok([i \in 1..Len(df) |->
            [df[i] EXCEPT !.temp = IF ParseFloat(df[i].temp).val.nan THEN Num(0)
                                   ELSE ParseFloat(df[i].temp).val]])

\* df["temp"].astype(float); the time column keeps the instant.
astype_float(df) ==
  IF \E i \in 1..Len(df) : ~ParseFloat(df[i].temp).ok THEN Raise("ValueError")
  ELSE Ok([i \in 1..Len(df) |-> [df[i] EXCEPT !.temp = ParseFloat(df[i].temp).val]])

EmptyFrame == <<>>

\* ------------------------------------------------------- threshold tracker
\* history.json: state "absent" | "corrupt" | "ok"; perm "rw" | "ro" | "none";
\* records is the year-keyed mapping (empty unless state = "ok").
NoRecords == <<>>
NoRecord == [temperature |-> NaN, time |-> [year |-> 0, sec |-> 0]]
File(state, perm, records) == [state |-> state, perm |-> perm, records |-> records]

\* str(tonks.loc[0, "time"]): the calendar text of the instant, its year
\* and the seconds into that year.
TimeStr(t) == [year |-> YearOf(t), sec |-> t % YearLen]

\* Faulty variant: any year's record counts as the current year's.
check_history_any_year(f, t) ==
  CASE f.state = "absent" ->
         [result |-> Ok([found |-> FALSE, rec |-> NoRecord]), file |-> File("ok", "rw", NoRecords)]
    [] f.state # "absent" /\ f.perm = "none" ->
         [result |-> Raise("PermissionError"), file |-> f]
    [] f.state = "corrupt" /\ f.perm # "none" ->
         [result |-> Raise("JSONDecodeError"), file |-> f]
    [] OTHER ->
         [result |-> IF DOMAIN f.records # {}
                     THEN Ok([found |-> TRUE,
                              rec |-> f.records[CHOOSE y \in DOMAIN f.records :
                                                  \A z \in DOMAIN f.records : z <= y]])
                     ELSE Ok([found |-> FALSE, rec |-> NoRecord]),
          file |-> f]

\* check_history() at clock t on file f: the value returned (found/rec, or
\* the exception) and the file afterwards.
check_history(f, t) ==
  CASE f.state = "absent" ->
         [result |-> Ok([found |-> FALSE, rec |-> NoRecord]), file |-> File("ok", "rw", NoRecords)]
    [] f.state # "absent" /\ f.perm = "none" ->
         [result |-> Raise("PermissionError"), file |-> f]
    [] f.state = "corrupt" /\ f.perm # "none" ->
         [result |-> Raise("JSONDecodeError"), file |-> f]
    [] OTHER ->
         [result |-> IF YearOf(t) \in DOMAIN f.records
                     THEN Ok([found |-> TRUE, rec |-> f.records[YearOf(t)]])
                     ELSE Ok([found |-> FALSE, rec |-> NoRecord]),
          file |-> f]

\* df.loc[df["temp"] >= threshold, :].reset_index(drop=True)
tonks(df, threshold) == SelectSeq(df, LAMBDA s : GE(s.temp, threshold))

\* Faulty variant: the last qualifying row.
LastTonk(rows) == rows[Len(rows)]

\* The sample record_possible_tonkka takes from the qualifying rows: .loc[0].
FirstTonk(rows) == rows[1]

\* Faulty variant: no comparison with the clock.
HappenedAlways(time, t) == TRUE

\* Faulty variant: the comparison with the clock is reversed.
HappenedReversed(time, t) == time > t

\* record_happened: tonks.loc[0, "time"] < now.
Happened(time, t) == time < t

\* Faulty variant: the file is rewritten with the new record alone.
WriteRecord_alone(f, t, sample) ==
  IF f.perm = "ro" THEN [result |-> Raise("PermissionError"), file |-> f]
  ELSE [result |-> Ok(TRUE),
        file |-> [f EXCEPT !.records =
                    (YearOf(t) :> [temperature |-> sample.temp, time |-> TimeStr(sample.time)])]]

\* The write of record_possible_tonkka: open "r+", load, set the year's key,
\* seek(0), dump.  A read-only file raises at open.
WriteRecord(f, t, sample) ==
  IF f.perm = "ro" THEN [result |-> Raise("PermissionError"), file |-> f]
  ELSE [result |-> Ok(TRUE),
        file |-> [f EXCEPT !.records =
                    (YearOf(t) :> [temperature |-> sample.temp, time |-> TimeStr(sample.time)]) @@ @]]

\* Faulty variant: the write is not guarded by check_history() is False.
record_possible_tonkka_unguarded(df, threshold, f, t) ==
  LET rows == tonks(df, threshold) IN
  IF Len(rows) = 0 THEN [result |-> Ok(TRUE), file |-> f]
  ELSE LET chk == check_history(f, t)
       IN IF ~chk.result.ok THEN [result |-> chk.result, file |-> chk.file]
          ELSE IF Happened(FirstTonk(rows).time, t)
               THEN WriteRecord(chk.file, t, FirstTonk(rows))
               ELSE [result |-> Ok(TRUE), file |-> chk.file]

\* record_possible_tonkka(df, threshold) at clock t on file f.  Both operands
\* of & are evaluated, so check_history() runs whenever a row qualifies.
record_possible_tonkka(df, threshold, f, t) ==
  LET rows == tonks(df, threshold) IN
  IF Len(rows) = 0 THEN [result |-> Ok(TRUE), file |-> f]
  ELSE LET record_happened == Happened(FirstTonk(rows).time, t)
           chk == check_history(f, t)
       IN IF ~chk.result.ok THEN [result |-> chk.result, file |-> chk.file]
          ELSE IF record_happened /\ ~chk.result.val.found
               THEN WriteRecord(chk.file, t, FirstTonk(rows))
               ELSE [result |-> Ok(TRUE), file |-> chk.file]

\* ---------------------------------------------------------------- fetcher
\* The argument of fetch_data: None or an hour count.
None == [none |-> TRUE, h |-> 0]
Hours(n) == [none |-> FALSE, h |-> n]

\* `if hourdelta:`: None and 0 are falsy.
Truthy(hourdelta) == ~hourdelta.none /\ hourdelta.h # 0

\* The request fetch_data builds.
Payload(hourdelta, t) ==
  IF Truthy(hourdelta)
  THEN [storedquery |-> "observations", hours |-> hourdelta.h]
  ELSE [storedquery |-> "forecast", hours |-> 0]

\* Upstream responses.
NetFailures == {"Timeout", "ConnectionError", "HTTPError"}
BadBodies == {"EmptyBody", "NotXml"}
Failure(kind) == [kind |-> kind, positions |-> NoElement, values |-> NoElement]
Xml(p, v) == [kind |-> "xml", positions |-> p, values |-> v]

\* The try block of fetch_data from the request to the frame: requests.get,
\* raise_for_status, ET.fromstring, get_positions, the value rows, np.append,
\* the DataFrame and its conversions.
Assemble(resp) ==
  IF resp.kind \in NetFailures THEN Raise(resp.kind)
  ELSE IF resp.kind \in BadBodies THEN Raise("ParseError")
  ELSE
    LET positions == get_positions(resp.positions) IN
    IF ~positions.ok THEN positions ELSE
    LET d == ValueRows(resp.values) IN
    IF ~d.ok THEN d ELSE
    LET arr == data_array(positions.val, d.val) IN
    IF ~arr.ok THEN arr ELSE
    LET raw == DataFrame(arr.val) IN
    IF ~raw.ok THEN raw ELSE astype_float(raw.val)

\* Faulty variant: the frame is returned without reaching the tracker.
TryFetch_unobserved(resp, f, t) == [result |-> Assemble(resp), file |-> f]

\* The try block of fetch_data on response resp: the frame, then
\* record_possible_tonkka(df, 20.0), then return df.
TryFetch(resp, f, t) ==
  LET df == Assemble(resp) IN
  IF ~df.ok THEN [result |-> df, file |-> f] ELSE
  LET rec == record_possible_tonkka(df.val, Threshold, f, t) IN
  IF ~rec.result.ok THEN rec ELSE [result |-> df, file |-> rec.file]

\* The except clauses of fetch_data.
Caught(e) == ExcBase(e) \in CaughtByFetch

\* The body of fetch_data (below the cache): the series returned or the
\* exception that escapes, and history.json afterwards.
fetch_data_body(resp, f, t) ==
  LET r == TryFetch(resp, f, t) IN
  IF ~r.result.ok /\ Caught(r.result.exc)
  THEN [result |-> Ok(EmptyFrame), file |-> r.file]
  ELSE r

\* ------------------------------------------------------------ result cache
\* A call of a @cached function: how the argument is passed decides the key.
Positional(n) == [style |-> "positional", arg |-> Hours(n)]
Keyword(n) == [style |-> "keyword", arg |-> Hours(n)]
NoArgs == [style |-> "noargs", arg |-> None]

\* cachetools.keys.hashkey(*args, **kwargs): the positional values, then the
\* keyword values behind a marker; fetch_data(6) and fetch_data(hourdelta=6)
\* hash differently.
hashkey(call) ==
  [args |-> IF call.style = "positional" THEN <<call.arg.h>> ELSE <<>>,
   kwargs |-> IF call.style = "keyword" THEN <<call.arg.h>> ELSE <<>>]

\* Faulty variant: an entry is still served at its expiry instant.
FreshAtExpiry(entry, t) == t <= entry.expires

\* TTLCache.__getitem__: an entry is served while timer() < expires.
Fresh(entry, t) == t < entry.expires

Live(c, k, t) == k \in DOMAIN c /\ Fresh(c[k], t)

\* TTLCache.expire(time): drop every entry that is no longer fresh.
expire(c, t) == [k \in {x \in DOMAIN c : Fresh(c[x], t)} |-> c[k]]

\* TTLCache.__setitem__: expire, make room (Cache.__setitem__ pops entries
\* while the cache is full), store with expires = time + ttl.  The victim
\* order is not tracked: `victim` is any stored key, or the new key itself
\* when no room is needed.
NeedsRoom(c, k, t) == k \notin DOMAIN expire(c, t) /\ Cardinality(DOMAIN expire(c, t)) + 1 > maxsize

Victims(c, k, t) == IF NeedsRoom(c, k, t) THEN DOMAIN expire(c, t) ELSE {k}

setitem(c, k, v, t, victim) ==
  LET kept == expire(c, t)
      room == [x \in DOMAIN kept \ {victim} |-> kept[x]]
  IN (k :> [value |-> v, expires |-> t + ttl]) @@ room

\* The lookup of the cached() wrapper, for the record of the step.
Lookup(c, k, t) ==
  IF k \notin DOMAIN c THEN "miss" ELSE IF Fresh(c[k], t) THEN "hit" ELSE "expired"

\* Faulty variant: an empty series is returned but not stored.
cached_fetch_data_skip_empty(call, resp, c, f, t, victim) ==
  LET k == hashkey(call) IN
  IF Live(c, k, t)
  THEN [result |-> Ok(c[k].value), file |-> f, cache |-> c, net |-> 0,
        lookup |-> "hit", payload |-> Payload(call.arg, t)]
  ELSE LET r == fetch_data_body(resp, f, t)
       IN [result |-> r.result, file |-> r.file,
           cache |-> IF r.result.ok /\ r.result.val # EmptyFrame
                     THEN setitem(c, k, r.result.val, t, victim) ELSE c,
           net |-> 1, lookup |-> Lookup(c, k, t), payload |-> Payload(call.arg, t)]

\* @cached(cache) around fetch_data: a hit returns the stored series; a miss
\* runs the body on the response and stores what it returns; an exception
\* that escapes stores nothing.
cached_fetch_data(call, resp, c, f, t, victim) ==
  LET k == hashkey(call) IN
  IF Live(c, k, t)
  THEN [result |-> Ok(c[k].value), file |-> f, cache |-> c, net |-> 0,
        lookup |-> "hit", payload |-> Payload(call.arg, t)]
  ELSE LET r == fetch_data_body(resp, f, t)
       IN [result |-> r.result, file |-> r.file,
           cache |-> IF r.result.ok THEN setitem(c, k, r.result.val, t, victim) ELSE c,
           net |-> 1, lookup |-> Lookup(c, k, t), payload |-> Payload(call.arg, t)]

\* -------------------------------------------------------- temperature()
\* Faulty variant: gaps are kept.
dropna_nothing(df) == df

\* df.dropna(subset=["temp"])
dropna(df) == SelectSeq(df, LAMBDA s : ~s.temp.nan)

\* The row temperature() reads: df.iloc[-1:].
LastRow(df) == df[Len(df)]

Absent == [kind |-> "absent", temp |-> 0, time |-> 0]
Reading(temp, time) == [kind |-> "reading", temp |-> temp, time |-> time]

\* temperature() on the series fetch_data(6) returned.
temperature(df) ==
  IF Len(df) = 0 THEN Absent
  ELSE IF Len(dropna(df)) = 0 THEN Absent
  ELSE Reading(LastRow(dropna(df)).temp.v, LastRow(dropna(df)).time)

\* ------------------------------------------------------------- plots.py
\* The image a plot function returns: the "no data" placeholder or a plot.
Bio(df) == IF Len(df) = 0 THEN "placeholder" ELSE "plot"

\* plots.history(hours) / plots.history(): the hour count it plots.
PlotHours(call, default) == IF call.style = "noargs" THEN default ELSE call.arg.h

\* The fetch_data call each plot function makes.
HistoryFetch(call) == Keyword(PlotHours(call, DefaultHistoryHours) + HistoryPad)
ForecastFetch == NoArgs

\* The body of a plot function, given what its fetch_data call `r` came to:
\* the image is built from the series and stored under key k, or the
\* exception of the fetch passes through and nothing is stored.
plot_body(r, pc, k, t, pvictim) ==
  [result |-> IF r.result.ok THEN Ok(Bio(r.result.val)) ELSE r.result,
   file |-> r.file, cache |-> r.cache,
   plots |-> IF r.result.ok THEN setitem(pc, k, Bio(r.result.val), t, pvictim) ELSE pc,
   net |-> r.net, lookup |-> r.lookup, df |-> r.result, fetched |-> TRUE]

\* @cached(cache_history) / @cached(cache_forecast) around a plot function
\* whose body makes the fetch_data call `fetch`.
cached_plot(call, fetch, resp, pc, c, f, t, victim, pvictim) ==
  IF Live(pc, hashkey(call), t)
  THEN [result |-> Ok(pc[hashkey(call)].value), file |-> f, cache |-> c, plots |-> pc,
        net |-> 0, lookup |-> "none", df |-> Raise("NotCalled"), fetched |-> FALSE]
  ELSE plot_body(cached_fetch_data(fetch, resp, c, f, t, victim), pc, hashkey(call), t, pvictim)

\* ----------------------------------------------------- the upstream service
SeqsUpTo(S, n) == UNION {[1..k -> S] : k \in 0..n}

Ascending(s) == \A i \in 1..(Len(s) - 1) : s[i] < s[i + 1]

\* Chronological runs of at most n instants of a grid.
Instants(grid, n) == {s \in SeqsUpTo(grid, n) : Ascending(s)}

\* Latitude and longitude the service reports for the station.
StationLat == 60
StationLon == 25

RECURSIVE PositionsText(_)
PositionsText(times) ==
  IF Len(times) = 0 THEN <<>>
  ELSE <<StationLat, StationLon, Head(times)>> \o PositionsText(Tail(times))

RowsText(texts) == [i \in 1..Len(texts) |-> <<texts[i]>>]

\* Well-formed coverage documents: one value row per position.
WellFormed(grid, texts, n) ==
  UNION {{Xml(Text(PositionsText(ts)), Text(RowsText(tx))) : tx \in [1..Len(ts) -> texts]}
         : ts \in Instants(grid, n)}

\* What the service may answer under Spec: observations lie in the past, a
\* forecast runs from the last analysis hour into the future.
FeedTexts == {"19.0", "21.5", "23.0"}
FeedFailures == {Failure("Timeout"), Failure("EmptyBody"), Xml(NoText, NoElement)}
ObservedGrid(t) == {t - TickLen}
ForecastGrid(t) == {t + TickLen}

Service(payload, t) ==
  FeedFailures \cup
  WellFormed(IF payload.storedquery = "observations" THEN ObservedGrid(t) ELSE ForecastGrid(t),
             FeedTexts, FeedLen)

NoResponse == Failure("none")

\* The responses a step may meet: the service's when the call reaches the
\* network, none when a cache answers it.
Answers(reaches, payload, t) == IF reaches THEN Service(payload, t) ELSE {NoResponse}

\* ------------------------------------------------------------------ state
VARIABLES
  now,            \* the clock, in seconds
  history,        \* history.json
  cache,          \* data.cache
  cache_history,  \* plots.cache_history
  cache_forecast, \* plots.cache_forecast
  last,           \* the record of the last step
  loop            \* the event loop: the running handler and each handler's position

vars == <<now, history, cache, cache_history, cache_forecast, last, loop>>

EmptyCache == <<>>

NoCall == [style |-> "none", arg |-> None]
NotFetched == Raise("NotCalled")

NoPayload == [storedquery |-> "none", hours |-> 0]

Step(op, call, lookup, net, resp, df, out, t) ==
  [op |-> op, call |-> call, lookup |-> lookup, net |-> net, resp |-> resp,
   query |-> IF net = 1 THEN Payload(call.arg, t) ELSE NoPayload,
   df |-> df, out |-> out, at |-> t]

\* The handlers SpecLoop follows step by step, one queued update of each.
Tasks == {"temperature", "history"}
NoTask == "none"
QueuedTask == [pc |-> "queued", src |-> "none", df |-> NotFetched, found |-> FALSE, wrote |-> FALSE]
IdleLoop == [running |-> NoTask, tasks |-> [x \in Tasks |-> QueuedTask]]

Idle(t) == Step("idle", NoCall, "none", 0, NoResponse, NotFetched, Absent, t)

\* history.json as the process may find it at start.
PriorRecord == [temperature |-> Num(215), time |-> TimeStr(0 - TickLen)]
InitFiles ==
  {File("absent", "rw", NoRecords), File("ok", "rw", NoRecords),
   File("ok", "rw", (BaseYear - 1) :> PriorRecord)}

\* history.json damaged or protected from outside the process.
FaultyFiles ==
  {File("corrupt", "rw", NoRecords), File("ok", "ro", NoRecords),
   File("ok", "none", NoRecords)}

Init ==
  /\ now = 0
  /\ history \in InitFiles
  /\ cache = EmptyCache
  /\ cache_history = EmptyCache
  /\ cache_forecast = EmptyCache
  /\ last = Idle(0)
  /\ loop = IdleLoop

\* ---------------------------------------------------------------- actions
Out(kind) == [kind |-> kind, temp |-> 0, time |-> 0]

\* What a step records of the response: none when no request went out.
Seen(r, resp) == IF r.net = 1 THEN resp ELSE NoResponse

\* The clock advances.
Tick ==
  /\ now + TickLen <= MaxTime
  /\ now' = now + TickLen
  /\ last' = Idle(now')
  /\ UNCHANGED <<loop, history, cache, cache_history, cache_forecast>>

\* /temperature: data.temperature(), which asks fetch_data(6).
TemperatureCmd ==
  LET call == Positional(TemperatureHours) IN
  \E resp \in Answers(~Live(cache, hashkey(call), now), Payload(call.arg, now), now),
     victim \in Victims(cache, hashkey(call), now) :
    \E r \in {cached_fetch_data(call, resp, cache, history, now, victim)} :
    /\ history' = r.file
    /\ cache' = r.cache
    /\ last' = Step("temperature", call, r.lookup, r.net, Seen(r, resp), r.result,
                    IF r.result.ok THEN temperature(r.result.val) ELSE Out("raised"), now)
    /\ UNCHANGED <<loop, now, cache_history, cache_forecast>>

\* The argument of /history and /forecast: an integer in range is passed
\* on positionally, anything else falls back to the default call.
HistoryCalls == {Positional(4)}
ForecastCalls == {NoArgs}

\* /history: plots.history, then data.check_tonkka_occurrence() for the caption.
HistoryCmd ==
  \E call \in HistoryCalls :
  \E resp \in Answers(~Live(cache_history, hashkey(call), now)
                        /\ ~Live(cache, hashkey(HistoryFetch(call)), now),
                      Payload(HistoryFetch(call).arg, now), now),
     victim \in Victims(cache, hashkey(HistoryFetch(call)), now),
     pvictim \in Victims(cache_history, hashkey(call), now) :
    \E r \in {cached_plot(call, HistoryFetch(call), resp, cache_history, cache, history,
                         now, victim, pvictim)} :
    LET chk == check_history(r.file, now)
        used == IF r.fetched THEN HistoryFetch(call) ELSE NoCall
    IN
    /\ cache' = r.cache
    /\ cache_history' = r.plots
    /\ history' = IF r.result.ok THEN chk.file ELSE r.file
    /\ last' = Step("history", used, r.lookup, r.net, Seen(r, resp), r.df,
                    IF ~r.result.ok \/ ~chk.result.ok THEN Out("raised")
                    ELSE IF chk.result.val.found THEN Out("opened") ELSE Out("too cold"), now)
    /\ UNCHANGED <<loop, now, cache_forecast>>

\* /forecast: plots.forecast, which asks fetch_data().
ForecastCmd ==
  \E call \in ForecastCalls :
  \E resp \in Answers(~Live(cache_forecast, hashkey(call), now)
                        /\ ~Live(cache, hashkey(ForecastFetch), now),
                      Payload(ForecastFetch.arg, now), now),
     victim \in Victims(cache, hashkey(ForecastFetch), now),
     pvictim \in Victims(cache_forecast, hashkey(call), now) :
    \E r \in {cached_plot(call, ForecastFetch, resp, cache_forecast, cache, history,
                         now, victim, pvictim)} :
    LET used == IF r.fetched THEN ForecastFetch ELSE NoCall
    IN
    /\ cache' = r.cache
    /\ cache_forecast' = r.plots
    /\ history' = r.file
    /\ last' = Step("forecast", used, r.lookup, r.net, Seen(r, resp), r.df,
                    IF r.result.ok THEN Out("photo") ELSE Out("raised"), now)
    /\ UNCHANGED <<loop, now, cache_history>>

\* The daily job.  The job queue calls the callback with its context while
\* check_history_job declares no parameter, so the call may fail before the
\* body runs; both outcomes are kept.
CheckHistoryJob ==
  /\ \/ /\ history' = check_history(history, now).file
        /\ last' = Step("check_history_job", NoCall, "none", 0, NoResponse, NotFetched,
                        IF check_history(history, now).result.ok THEN Out("checked")
                        ELSE Out("raised"), now)
     \/ /\ history' = history
        /\ last' = Step("check_history_job", NoCall, "none", 0, NoResponse, NotFetched,
                        Out("raised"), now)
  /\ UNCHANGED <<loop, now, cache, cache_history, cache_forecast>>

Next == Tick \/ TemperatureCmd \/ HistoryCmd \/ ForecastCmd \/ CheckHistoryJob

Spec == Init /\ [][Next]_vars

\* ------------------------------------------------- one call on any response
\* SpecCall applies fetch_data or temperature() once, with an empty cache, to
\* every response of a wider set: all chronological payloads of up to MaxLen
\* samples, and the malformed ones.
CallTexts == {"10.0", "19.0", "20.0", "21.5", "NaN", "-"}
CallGrid(t) == {t - 2 * TickLen, t - TickLen, t, t + TickLen}

\* Payloads whose structure is broken: an element missing or without text,
\* position tokens left over, a row count that differs, a row of two fields.
Malformed(grid, n) ==
  UNION {
    {Xml(NoElement, Text(RowsText([i \in 1..Len(ts) |-> "21.5"]))),
     Xml(NoText, Text(RowsText([i \in 1..Len(ts) |-> "21.5"]))),
     Xml(Text(PositionsText(ts)), NoElement),
     Xml(Text(PositionsText(ts)), NoText),
     Xml(Text(PositionsText(ts) \o <<StationLat>>), Text(RowsText([i \in 1..Len(ts) |-> "21.5"]))),
     Xml(Text(PositionsText(ts) \o <<StationLat, StationLon>>),
         Text(RowsText([i \in 1..Len(ts) |-> "21.5"]))),
     Xml(Text(PositionsText(ts)), Text(RowsText([i \in 1..(Len(ts) + 1) |-> "21.5"]))),
     Xml(Text(PositionsText(ts)), Text([i \in 1..Len(ts) |-> <<"21.5", "21.5">>]))}
    : ts \in Instants(grid, n)}

AllResponses(t) ==
  {Failure(k) : k \in NetFailures \cup BadBodies}
    \cup WellFormed(CallGrid(t), CallTexts, MaxLen)
    \cup Malformed(CallGrid(t), MaxLen)

\* The calls and the files they are tried on.
ThisYearRecord(t) == [temperature |-> Num(230), time |-> TimeStr(t - 2 * TickLen)]
CallFiles(t) ==
  InitFiles \cup FaultyFiles \cup {File("ok", "rw", YearOf(t) :> ThisYearRecord(t))}
CallCases(t) ==
  {[call |-> Positional(TemperatureHours), file |-> f] : f \in CallFiles(t)}
    \cup {[call |-> c, file |-> File("ok", "rw", NoRecords)]
          : c \in {NoArgs, Positional(0), Positional(0 - 1), Keyword(TemperatureHours)}}
CallTimes == {TickLen, YearLen}

InitCall ==
  /\ now \in CallTimes
  /\ \E case \in CallCases(now), resp \in AllResponses(now) :
       /\ history = case.file
       /\ last = Step("input", case.call, "none", 0, resp, NotFetched, Absent, now)
  /\ cache = EmptyCache
  /\ cache_history = EmptyCache
  /\ cache_forecast = EmptyCache
  /\ loop = IdleLoop

\* fetch_data(...) called once.
CallFetchData ==
  /\ last.op = "input"
  /\ \E victim \in Victims(cache, hashkey(last.call), now) :
     \E r \in {cached_fetch_data(last.call, last.resp, cache, history, now, victim)} :
       /\ history' = r.file
       /\ cache' = r.cache
       /\ last' = Step("fetch_data", last.call, r.lookup, r.net, last.resp, r.result,
                       Absent, now)
  /\ UNCHANGED <<loop, now, cache_history, cache_forecast>>

\* temperature() called once.
CallTemperature ==
  /\ last.op = "input"
  /\ last.call = Positional(TemperatureHours)
  /\ \E victim \in Victims(cache, hashkey(last.call), now) :
     \E r \in {cached_fetch_data(last.call, last.resp, cache, history, now, victim)} :
       /\ history' = r.file
       /\ cache' = r.cache
       /\ last' = Step("temperature", last.call, r.lookup, r.net, last.resp, r.result,
                       IF r.result.ok THEN temperature(r.result.val) ELSE Out("raised"), now)
  /\ UNCHANGED <<loop, now, cache_history, cache_forecast>>

NextCall == CallFetchData \/ CallTemperature

SpecCall == InitCall /\ [][NextCall]_vars

\* --------------------------------------------------------- the event loop
\* SpecLoop follows two handlers step by step through the cache lookup, the
\* request, the tracker's read and its write, to see where they can
\* interleave.
TaskPlot == Positional(4)
TaskCall(task) == IF task = "temperature" THEN Positional(TemperatureHours) ELSE HistoryFetch(TaskPlot)

\* Faulty variant: handlers run at any time, as on worker threads.
MayStepAnytime(task) == TRUE

\* The scheduling main() sets up: concurrent_updates(False) hands the
\* updates to their handlers one at a time, and run_polling() runs them on
\* one event-loop thread, which a handler keeps until it awaits.
MayStep(task) ==
  /\ loop.running \in {NoTask, task}
  /\ loop.tasks[task].pc = "queued" =>
       \A other \in Tasks \ {task} : loop.tasks[other].pc \in {"queued", "done"}

Moved(task, pc, src, df, found, wrote, running) ==
  [running |-> running,
   tasks |-> [loop.tasks EXCEPT ![task] =
                [pc |-> pc, src |-> src, df |-> df, found |-> found, wrote |-> wrote]]]

\* The update is handed to its handler.
LoopDispatch(task) ==
  /\ MayStep(task)
  /\ loop.tasks[task].pc = "queued"
  /\ loop' = Moved(task, "fetch", "none", NotFetched, FALSE, FALSE, task)
  /\ UNCHANGED <<now, history, cache, cache_history, cache_forecast, last>>

\* The cache lookups, and on a miss the request and the frame, up to the
\* call of record_possible_tonkka.
LoopFetch(task) ==
  /\ MayStep(task)
  /\ loop.tasks[task].pc = "fetch"
  /\ \/ /\ task = "history"
        /\ Live(cache_history, hashkey(TaskPlot), now)
        /\ loop' = Moved(task, "store", "plot", NotFetched, FALSE, FALSE, task)
     \/ /\ ~(task = "history" /\ Live(cache_history, hashkey(TaskPlot), now))
        /\ Live(cache, hashkey(TaskCall(task)), now)
        /\ loop' = Moved(task, "store", "cache", Ok(cache[hashkey(TaskCall(task))].value),
                         FALSE, FALSE, task)
     \/ /\ ~(task = "history" /\ Live(cache_history, hashkey(TaskPlot), now))
        /\ ~Live(cache, hashkey(TaskCall(task)), now)
        /\ \E resp \in Service(Payload(TaskCall(task).arg, now), now) :
           \E a \in {Assemble(resp)} :
             loop' = IF ~a.ok /\ Caught(a.exc)
                       THEN Moved(task, "store", "net", Ok(EmptyFrame), FALSE, FALSE, task)
                     ELSE IF ~a.ok
                       THEN Moved(task, "store", "raised", a, FALSE, FALSE, task)
                     ELSE IF Len(tonks(a.val, Threshold)) = 0
                       THEN Moved(task, "store", "net", a, FALSE, FALSE, task)
                     ELSE Moved(task, "observe", "net", a, FALSE, FALSE, task)
  /\ UNCHANGED <<now, history, cache, cache_history, cache_forecast, last>>

\* record_possible_tonkka reads: check_history().
LoopRead(task) ==
  /\ MayStep(task)
  /\ loop.tasks[task].pc = "observe"
  /\ \E chk \in {check_history(history, now)} :
       /\ history' = chk.file
       /\ loop' = IF chk.result.ok
                    THEN Moved(task, "decide", "net", loop.tasks[task].df,
                               chk.result.val.found, FALSE, task)
                  ELSE IF Caught(chk.result.exc)
                    THEN Moved(task, "store", "net", Ok(EmptyFrame), FALSE, FALSE, task)
                  ELSE Moved(task, "store", "raised", chk.result, FALSE, FALSE, task)
  /\ UNCHANGED <<now, cache, cache_history, cache_forecast, last>>

\* The task has read "no record" for a crossing in the past and will write.
Writing(task) ==
  /\ loop.tasks[task].pc = "decide"
  /\ ~loop.tasks[task].found
  /\ Happened(FirstTonk(tonks(loop.tasks[task].df.val, Threshold)).time, now)

\* record_possible_tonkka writes when the read found no record.
LoopWrite(task) ==
  /\ MayStep(task)
  /\ loop.tasks[task].pc = "decide"
  /\ IF Writing(task)
     THEN \E w \in {WriteRecord(history, now,
                                FirstTonk(tonks(loop.tasks[task].df.val, Threshold)))} :
            /\ history' = w.file
            /\ loop' = IF w.result.ok
                         THEN Moved(task, "store", "net", loop.tasks[task].df,
                                    loop.tasks[task].found, TRUE, task)
                       ELSE Moved(task, "store", "raised", w.result,
                                  loop.tasks[task].found, FALSE, task)
     ELSE /\ history' = history
          /\ loop' = Moved(task, "store", "net", loop.tasks[task].df,
                           loop.tasks[task].found, FALSE, task)
  /\ UNCHANGED <<now, cache, cache_history, cache_forecast, last>>

\* The cached wrappers store what the bodies returned, /history reads the
\* record for its caption, and the handler awaits its reply: the thread is
\* free.  A handler that raised ends here.
LoopReturn(task) ==
  /\ MayStep(task)
  /\ loop.tasks[task].pc = "store"
  /\ \E victim \in Victims(cache, hashkey(TaskCall(task)), now),
        pvictim \in Victims(cache_history, hashkey(TaskPlot), now) :
       LET me == loop.tasks[task]
           chk == check_history(history, now)
       IN
       /\ cache' = IF me.src = "net"
                   THEN setitem(cache, hashkey(TaskCall(task)), me.df.val, now, victim)
                   ELSE cache
       /\ cache_history' = IF task = "history" /\ me.src \in {"net", "cache"}
                           THEN setitem(cache_history, hashkey(TaskPlot), Bio(me.df.val),
                                        now, pvictim)
                           ELSE cache_history
       /\ history' = IF task = "history" /\ me.src # "raised" THEN chk.file ELSE history
       /\ loop' = IF me.src = "raised" \/ (task = "history" /\ ~chk.result.ok)
                  THEN Moved(task, "done", me.src, me.df, me.found, me.wrote, NoTask)
                  ELSE Moved(task, "await", me.src, me.df, me.found, me.wrote, NoTask)
  /\ UNCHANGED <<now, cache_forecast, last>>

\* The awaited reply completes.
LoopReply(task) ==
  /\ MayStep(task)
  /\ loop.tasks[task].pc = "await"
  /\ loop' = [loop EXCEPT !.tasks[task].pc = "done"]
  /\ UNCHANGED <<now, history, cache, cache_history, cache_forecast, last>>

\* The clock advances while handlers run or wait.
LoopTick ==
  /\ now + TickLen <= MaxTime
  /\ now' = now + TickLen
  /\ UNCHANGED <<history, cache, cache_history, cache_forecast, last, loop>>

NextLoop ==
  \/ \E task \in Tasks : LoopDispatch(task)
  \/ \E task \in Tasks : LoopFetch(task)
  \/ \E task \in Tasks : LoopRead(task)
  \/ \E task \in Tasks : LoopWrite(task)
  \/ \E task \in Tasks : LoopReturn(task)
  \/ \E task \in Tasks : LoopReply(task)
  \/ LoopTick

SpecLoop == Init /\ [][NextLoop]_vars

\* ------------------------------------------------------------------ claims
\* The record a crossing sample would be stored as.
RecordOf(sample) == [temperature |-> sample.temp, time |-> TimeStr(sample.time)]

\* The step fetched a series that crosses the threshold in the past.
CrossedInPast ==
  /\ last.net = 1
  /\ last.df.ok
  /\ Len(tonks(last.df.val, Threshold)) > 0
  /\ tonks(last.df.val, Threshold)[1].time < last.at

\* C1: once the current year has a record in history.json, no step changes
\* or removes it: a later observe whose series also crosses the threshold
\* leaves the year's single record with the temperature and time it had.
C1_RecordKept ==
  [][YearOf(now) \in DOMAIN history.records =>
       /\ YearOf(now) \in DOMAIN history'.records
       /\ history'.records[YearOf(now)] = history.records[YearOf(now)]]_vars

\* A later crossing series was observed and the year's record is still the
\* earlier, different one.
C1_Witness ==
  /\ CrossedInPast
  /\ YearOf(now) \in DOMAIN history.records
  /\ history.records[YearOf(now)] # RecordOf(tonks(last.df.val, Threshold)[1])

\* C2 (as claimed): whatever the upstream request ends in (a network
\* failure, an unparsable body, a body with a missing or empty element,
\* position tokens not in threes, a row count that differs), fetch_data
\* returns the empty series and raises nothing.
UpstreamFailed(resp) ==
  \/ resp.kind \in NetFailures \cup BadBodies
  \/ /\ resp.kind = "xml"
     /\ \/ resp.positions.el # "text"
        \/ resp.values.el # "text"
        \/ Len(resp.positions.toks) % 3 # 0
        \/ Len(resp.positions.toks) # 3 * Len(resp.values.toks)

C2_FetchNeverRaises ==
  (last.op = "fetch_data" /\ UpstreamFailed(last.resp)) =>
    (last.df.ok /\ last.df.val = EmptyFrame)

\* C3: a fetch whose qualifying samples all lie after the current moment
\* adds, changes and removes no record of history.json.
AllCrossingsAhead(step) ==
  /\ step.net = 1
  /\ step.df.ok
  /\ Len(tonks(step.df.val, Threshold)) > 0
  /\ \A i \in 1..Len(step.df.val) :
       GE(step.df.val[i].temp, Threshold) => step.df.val[i].time > step.at

C3_NoFutureRecord ==
  [][AllCrossingsAhead(last') => history'.records = history.records]_vars

\* A forecast-like series reached the tracker while the year had no record.
C3_Witness ==
  /\ last.op = "fetch_data"
  /\ AllCrossingsAhead(last)
  /\ history.state = "ok"
  /\ history.perm = "rw"
  /\ YearOf(now) \notin DOMAIN history.records

\* C4: the record a step adds for the current year is that of the
\* qualifying sample with the lowest timestamp in the fetched series.
C4_FirstCrossingRecorded ==
  [][(YearOf(now) \notin DOMAIN history.records /\ YearOf(now) \in DOMAIN history'.records) =>
       /\ last'.df.ok
       /\ \E i \in 1..Len(last'.df.val) :
            /\ GE(last'.df.val[i].temp, Threshold)
            /\ \A j \in 1..Len(last'.df.val) :
                 GE(last'.df.val[j].temp, Threshold) =>
                   last'.df.val[i].time <= last'.df.val[j].time
            /\ history'.records[YearOf(now)] = RecordOf(last'.df.val[i])]_vars

\* Rows 10.0, 21.5, 19.0 up to the current moment: the 21.5 sample is the record.
C4_Witness ==
  /\ last.op = "fetch_data"
  /\ last.df.ok
  /\ Len(last.df.val) = 3
  /\ last.df.val[1].temp = Num(100)
  /\ last.df.val[2].temp = Num(215)
  /\ last.df.val[3].temp = Num(190)
  /\ last.df.val[3].time <= now
  /\ YearOf(now) \in DOMAIN history.records
  /\ history.records[YearOf(now)] = RecordOf(last.df.val[2])

\* The argument a cache key was made from, whichever way it was passed.
KeyArg(k) ==
  IF Len(k.args) > 0 THEN Hours(k.args[1])
  ELSE IF Len(k.kwargs) > 0 THEN Hours(k.kwargs[1]) ELSE None

\* C5 (as claimed): a fetch_data call for a mode and hour count that some
\* fresh cache entry was fetched for makes no network request and returns
\* that entry's series, however the hour count is passed.
C5_SameQueryOneRequest ==
  [][\A k \in DOMAIN cache :
       (/\ last'.call # NoCall
        /\ now' = now
        /\ Live(cache, k, now)
        /\ KeyArg(k) = last'.call.arg) =>
         (last'.net = 0 /\ last'.df = Ok(cache[k].value))]_vars

\* C6: fetch_data answers from the cache exactly while the key's entry is
\* younger than 60 seconds, and otherwise goes to the network; an entry is
\* stored to expire 60 seconds later and leaves the cache only once that
\* instant has passed (or when the cache is full).
C6_NeverStale ==
  [][/\ (last'.call # NoCall /\ now' = now) =>
          LET k == hashkey(last'.call) IN
          /\ (k \in DOMAIN cache /\ now >= cache[k].expires) => last'.net = 1
          /\ last'.net = 0 => (k \in DOMAIN cache /\ now < cache[k].expires
                                /\ last'.df = Ok(cache[k].value))
          /\ (last'.net = 1 /\ last'.df.ok) =>
               (k \in DOMAIN cache' /\ cache'[k] = [value |-> last'.df.val, expires |-> now + ttl])
     /\ \A k \in DOMAIN cache :
          k \notin DOMAIN cache' =>
            (now' >= cache[k].expires \/ Cardinality(DOMAIN cache) >= maxsize)
     /\ \A k \in DOMAIN cache :
          (k \in DOMAIN cache' /\ cache'[k] # cache[k]) => now' >= cache[k].expires]_vars

\* A call found its key's entry expired and went to the network.
C6_Witness ==
  /\ last.lookup = "expired"
  /\ last.net = 1
  /\ last.df.ok
  /\ hashkey(last.call) \in DOMAIN cache
  /\ cache[hashkey(last.call)].expires = now + ttl

\* C7 (as claimed): fetch_data with a zero or negative hour count is
\* rejected: it raises and sends no request.
C7_NonPositiveRejected ==
  (last.op = "fetch_data" /\ ~last.call.arg.none /\ last.call.arg.h <= 0) =>
    (last.net = 0 /\ ~last.df.ok)

\* C8 (as claimed): when history.json is unreadable, unwritable or
\* unparsable, fetch_data still returns the series it assembled.
StoreFails(f) == f.state = "corrupt" \/ f.perm # "rw"

C8_SeriesSurvivesStoreFailure ==
  (/\ last.op = "fetch_data"
   /\ StoreFails(history)
   /\ Assemble(last.resp).ok
   /\ Len(Assemble(last.resp).val) > 0) =>
    last.df = Assemble(last.resp)

\* C9: no two handlers are ever both between a read of "no record" and the
\* write it leads to, and no step changes or removes a record that
\* history.json holds.
C9_CriticalSection ==
  /\ [](\A a, b \in Tasks : a # b => ~(Writing(a) /\ Writing(b)))
  /\ [][\A y \in DOMAIN history.records :
          /\ y \in DOMAIN history'.records
          /\ history'.records[y] = history.records[y]]_vars

\* One handler wrote the year's record; the other then fetched a different
\* past crossing, read the record and left it.
C9_Witness ==
  \E a, b \in Tasks :
    /\ a # b
    /\ loop.tasks[a].wrote
    /\ loop.tasks[b].found
    /\ loop.tasks[b].pc = "done"
    /\ loop.tasks[b].df.ok
    /\ Len(tonks(loop.tasks[b].df.val, Threshold)) > 0
    /\ YearOf(now) \in DOMAIN history.records
    /\ history.records[YearOf(now)] # RecordOf(FirstTonk(tonks(loop.tasks[b].df.val, Threshold)))

\* C10: temperature() returns the non-gap sample of the fetched window with
\* the highest timestamp, and absent exactly when the window has none.
C10_LatestValidSample ==
  (last.op = "temperature" /\ last.df.ok) =>
    LET df == last.df.val
        valid == {i \in 1..Len(df) : ~df[i].temp.nan}
    IN IF valid = {} THEN last.out = Absent
       ELSE \E i \in valid :
              /\ \A j \in valid : df[j].time <= df[i].time
              /\ last.out = Reading(df[i].temp.v, df[i].time)

\* The two latest samples are gaps and the third-latest is returned.
C10_Witness ==
  /\ last.op = "temperature"
  /\ last.df.ok
  /\ Len(last.df.val) = 3
  /\ ~last.df.val[1].temp.nan
  /\ last.df.val[2].temp.nan
  /\ last.df.val[3].temp.nan
  /\ last.out = Reading(last.df.val[1].temp.v, last.df.val[1].time)

\* The response decodes to a series with a sample at or above the threshold
\* whose timestamp satisfies `when` against the clock.
QualifyingSample(resp, t, strict) ==
  /\ Assemble(resp).ok
  /\ \E i \in 1..Len(Assemble(resp).val) :
       /\ GE(Assemble(resp).val[i].temp, Threshold)
       /\ IF strict THEN Assemble(resp).val[i].time < t ELSE Assemble(resp).val[i].time <= t

\* history.json can be read and written and holds no record for the year.
Unobserved(f, t) ==
  /\ f.state \in {"ok", "absent"}
  /\ f.perm = "rw"
  /\ YearOf(t) \notin DOMAIN f.records

\* C11 (as claimed): when the current year has no record and a fetch
\* observes a series with a sample at or above the threshold whose timestamp
\* is at or before the current moment (timestamp = now included), that call
\* persists the year's record and the query reports it.
C11_FirstQualifyingObserveRecords ==
  [][(/\ last'.op = "fetch_data"
      /\ last'.net = 1
      /\ Unobserved(history, now)
      /\ QualifyingSample(last'.resp, now, FALSE)) =>
       (/\ YearOf(now) \in DOMAIN history'.records
        /\ check_history(history', now).result.ok
        /\ check_history(history', now).result.val.found)]_vars

\* C11 (amended): when the current year has no record and a fetch observes
\* a series with a sample at or above the threshold whose timestamp is
\* strictly before the current moment, that call persists the year's record
\* and the query reports it.
C11_PastCrossingRecorded ==
  [][(/\ last'.op = "fetch_data"
      /\ last'.net = 1
      /\ Unobserved(history, now)
      /\ QualifyingSample(last'.resp, now, TRUE)) =>
       (/\ YearOf(now) \in DOMAIN history'.records
        /\ check_history(history', now).result.ok
        /\ check_history(history', now).result.val.found)]_vars

\* A fetch observed a crossing one tick in the past and the year's record
\* is that sample.
C11_Witness ==
  /\ last.op = "fetch_data"
  /\ last.net = 1
  /\ last.df.ok
  /\ QualifyingSample(last.resp, now, TRUE)
  /\ Len(tonks(last.df.val, Threshold)) > 0
  /\ tonks(last.df.val, Threshold)[1].time = now - TickLen
  /\ YearOf(now) \in DOMAIN history.records
  /\ history.records[YearOf(now)] = RecordOf(tonks(last.df.val, Threshold)[1])

\* C12: a fetch_data call that misses the cache and returns the series it
\* assembled has observed it first: a past crossing in the returned series
\* is the year's record when the call returns, if the year had none.  A
\* fetch that ends in an absorbed failure leaves history.json as it was.
\* Beyond history.json and the call's own cache entry nothing changes.
C12_ObservedBeforeReturn ==
  [][(last'.op = "fetch_data" /\ last'.net = 1) =>
       /\ (/\ last'.df.ok
           /\ Len(tonks(last'.df.val, Threshold)) > 0
           /\ tonks(last'.df.val, Threshold)[1].time < now
           /\ YearOf(now) \notin DOMAIN history.records) =>
            (/\ YearOf(now) \in DOMAIN history'.records
             /\ history'.records[YearOf(now)] = RecordOf(tonks(last'.df.val, Threshold)[1]))
       /\ (last'.df = Ok(EmptyFrame) /\ ~Assemble(last'.resp).ok) => history' = history
       /\ now' = now
       /\ cache_history' = cache_history
       /\ cache_forecast' = cache_forecast
       /\ loop' = loop
       /\ \A k \in DOMAIN cache' : k = hashkey(last'.call) \/ (k \in DOMAIN cache /\ cache'[k] = cache[k])]_vars

\* A call returned a series with a crossing in the past to a year without a
\* record (the file was absent), and the record is there at the return.
C12_Witness ==
  /\ last.op = "fetch_data"
  /\ last.net = 1
  /\ last.df.ok
  /\ Len(last.df.val) = 2
  /\ Len(tonks(last.df.val, Threshold)) > 0
  /\ tonks(last.df.val, Threshold)[1].time < now
  /\ history.state = "ok"
  /\ DOMAIN history.records = {YearOf(now)}
  /\ history.records[YearOf(now)] = RecordOf(tonks(last.df.val, Threshold)[1])

\* The response has n positions and n value rows of one readable field each.
Aligned(resp) ==
  /\ resp.kind = "xml"
  /\ resp.positions.el = "text"
  /\ resp.values.el = "text"
  /\ Len(resp.values.toks) > 0
  /\ Len(resp.positions.toks) = 3 * Len(resp.values.toks)
  /\ \A i \in 1..Len(resp.values.toks) :
       Len(resp.values.toks[i]) = 1 /\ ParseFloat(resp.values.toks[i][1]).ok

\* The response has position triples and value rows, but not as many of each.
Misaligned(resp) ==
  /\ resp.kind = "xml"
  /\ resp.positions.el = "text"
  /\ resp.values.el = "text"
  /\ Len(resp.positions.toks) % 3 = 0
  /\ Len(resp.positions.toks) # 3 * Len(resp.values.toks)

\* history.json is readable and writable after the call.
StoreWorks == history.state = "ok" /\ history.perm = "rw"

\* C13 (as claimed): for a payload of n positions and n value rows the
\* returned series has n samples in input order, sample i with the latitude,
\* longitude and timestamp of position i and the temperature of row i; when
\* the counts differ the empty series is returned.
C13_AlignedInOrder ==
  (last.op = "fetch_data" /\ StoreWorks) =>
    /\ Aligned(last.resp) =>
         /\ last.df.ok
         /\ Len(last.df.val) = Len(last.resp.values.toks)
         /\ \A i \in 1..Len(last.df.val) :
              /\ last.df.val[i].lat = last.resp.positions.toks[3 * i - 2]
              /\ last.df.val[i].lon = last.resp.positions.toks[3 * i - 1]
              /\ last.df.val[i].time = last.resp.positions.toks[3 * i]
              /\ last.df.val[i].temp = ParseFloat(last.resp.values.toks[i][1]).val
    /\ Misaligned(last.resp) => last.df = Ok(EmptyFrame)

\* The response is aligned and has a row holding the no-data marker.
HasGap(resp) ==
  Aligned(resp) /\ \E i \in 1..Len(resp.values.toks) : resp.values.toks[i][1] = "NaN"

\* C14 (as claimed): rows whose temperature is the no-data marker are
\* dropped from the series fetch_data returns and every other row is kept.
C14_GapRowsDropped ==
  (last.op = "fetch_data" /\ StoreWorks /\ HasGap(last.resp)) =>
    /\ last.df.ok
    /\ \A i \in 1..Len(last.df.val) : ~last.df.val[i].temp.nan
    /\ Len(last.df.val)
         = Cardinality({i \in 1..Len(last.resp.values.toks) : last.resp.values.toks[i][1] # "NaN"})

\* C14 (amended): fetch_data keeps a row holding the no-data marker as a
\* gap sample in its place (not a number, never zero) together with every
\* other row of the payload, and temperature() skips the gap samples: the
\* reading it returns is never a gap.
C14_GapRowsKeptAsGaps ==
  (last.op \in {"fetch_data", "temperature"} /\ StoreWorks /\ HasGap(last.resp)) =>
    /\ last.df.ok
    /\ Len(last.df.val) = Len(last.resp.values.toks)
    /\ \A i \in 1..Len(last.df.val) :
         /\ last.df.val[i].time = last.resp.positions.toks[3 * i]
         /\ last.df.val[i].temp.nan <=> last.resp.values.toks[i][1] = "NaN"
         /\ ~last.df.val[i].temp.nan => last.df.val[i].temp = FloatTable[last.resp.values.toks[i][1]]
    /\ last.op = "temperature" =>
         IF \A i \in 1..Len(last.df.val) : last.df.val[i].temp.nan
         THEN last.out = Absent
         ELSE /\ last.out.kind = "reading"
              /\ \E i \in 1..Len(last.df.val) :
                   /\ ~last.df.val[i].temp.nan
                   /\ last.out = Reading(last.df.val[i].temp.v, last.df.val[i].time)

\* A payload 21.5, gap, 19.0 came back as three samples, the middle one a gap.
C14_Witness ==
  /\ last.op = "fetch_data"
  /\ last.df.ok
  /\ Len(last.df.val) = 3
  /\ last.df.val[1].temp = Num(215)
  /\ last.df.val[2].temp.nan
  /\ last.df.val[3].temp = Num(190)

\* C15: the daily check job and the query of /history (taken alone, when
\* the plot or the series came from a cache) never add, change or remove a
\* record; the only write is an absent history.json created as the empty
\* mapping.  /history reports a record exactly when the mapping has the
\* current year's key, whatever earlier years it holds.
C15_QueryReadOnly ==
  [][/\ (last'.op = "check_history_job" \/ (last'.op = "history" /\ last'.net = 0)) =>
          /\ history'.records = history.records
          /\ history' # history =>
               (history.state = "absent" /\ history' = File("ok", "rw", NoRecords))
     /\ (last'.op = "history" /\ last'.out.kind \in {"opened", "too cold"}) =>
          (last'.out.kind = "opened" <=> YearOf(now) \in DOMAIN history'.records)]_vars

\* After the rollover /history reports no record while last year's remains.
C15_Witness ==
  /\ last.op = "history"
  /\ last.out.kind = "too cold"
  /\ now >= YearLen
  /\ (YearOf(now) - 1) \in DOMAIN history.records
  /\ YearOf(now) \notin DOMAIN history.records

\* C16: a step that persists the current year's record, and every other
\* step, leaves each other year's record in history.json as it was, and adds
\* no key but the current year's.
C16_OtherYearsKept ==
  [][/\ \A y \in DOMAIN history.records :
          y # YearOf(now) =>
            (y \in DOMAIN history'.records /\ history'.records[y] = history.records[y])
     /\ DOMAIN history'.records \subseteq (DOMAIN history.records \cup {YearOf(now)})]_vars

\* Records of three years: the one found at start and one written in each
\* of the two years the run spans; the last was written by this step.
C16_Witness ==
  /\ CrossedInPast
  /\ now >= YearLen
  /\ DOMAIN history.records = {BaseYear - 1, BaseYear, YearOf(now)}
  /\ history.records[BaseYear - 1] = PriorRecord
  /\ history.records[YearOf(now)] = RecordOf(tonks(last.df.val, Threshold)[1])
  /\ history.records[BaseYear] # history.records[YearOf(now)]

\* C17 (as claimed): every record of history.json carries a timestamp of
\* the calendar year it is keyed under.
C17_RecordInKeyedYear ==
  \A y \in DOMAIN history.records : history.records[y].time.year = y

\* C18: an empty series that fetch_data returns is stored under the call's
\* key for 60 seconds like any other result; while that entry is fresh a call
\* with the key returns the empty series without a request; a call that
\* raises stores nothing, so its key has no fresh entry afterwards.
C18_EmptySeriesMemoized ==
  [][(last'.call # NoCall /\ now' = now) =>
       LET k == hashkey(last'.call) IN
       /\ (last'.net = 1 /\ last'.df = Ok(EmptyFrame)) =>
            (k \in DOMAIN cache' /\ cache'[k] = [value |-> EmptyFrame, expires |-> now + ttl])
       /\ (k \in DOMAIN cache /\ cache[k].value = EmptyFrame /\ now < cache[k].expires) =>
            (last'.net = 0 /\ last'.df = Ok(EmptyFrame))
       /\ (last'.net = 1 /\ ~last'.df.ok) =>
            (cache' = cache /\ ~(k \in DOMAIN cache' /\ now < cache'[k].expires))]_vars

\* A call was answered with the stored empty series, one tick after the
\* failure that produced it.
C18_Witness ==
  /\ last.op = "temperature"
  /\ last.net = 0
  /\ last.lookup = "hit"
  /\ last.df = Ok(EmptyFrame)
  /\ hashkey(last.call) \in DOMAIN cache
  /\ cache[hashkey(last.call)].expires = now - TickLen + ttl

====
